---- MODULE Spec2Model ----
(***************************************************************************)
(* Model of launch_ec2_spots.py: one invocation of the spot instance       *)
(* launcher, from the processing of the launch specification to the exit   *)
(* of the process.  The provider (the aws client) is the environment: the  *)
(* answer of every call, its failure (non-zero exit) and an interrupt of   *)
(* the user at a sleep or a call are chosen nondeterministically.  A run   *)
(* is interrupted at most once, at a sleep or a call made by               *)
(* launch_EC2_spot_instances; the handlers of __main__ run to their end.   *)
(*                                                                         *)
(* Locals of a function are kept only while they are live: requestsData    *)
(* is dropped at the loop test that follows its examination, instancesData *)
(* after the list of launched instances has been built from it.  The      *)
(* snapshot that made the poller raise at line 200 is kept until the       *)
(* handler of __main__ has run.                                            *)
(***************************************************************************)
EXTENDS Integers, Sequences, FiniteSets, TLC

(***************************************************************************)
(* Bounds of the model.                                                    *)
(***************************************************************************)
MaxReq == 2       \* spot requests created by one submit call: 1..MaxReq
MaxPolls == 2     \* polling cycles of each of the two wait loops
MaxInst == 2      \* instances in a describe-instances snapshot
MaxZoneLen == 2   \* characters of an AvailabilityZone string

(***************************************************************************)
(* Status codes (lines 181-199).                                           *)
(***************************************************************************)
FulfilledCode == "fulfilled"

PracticallyTerminalCodes ==
    { "constraint-not-fulfillable", "capacity-not-available",
      "az-group-constraint", "placement-group-constraint",
      "capacity-oversubscribed", "launch-group-constraint" }

TerminalCodes ==
    { "system-error", "bad-parameters", "schedule-expired",
      "canceled-before-fulfillment" }

\* Codes the provider reports in the snapshots of the model: the fulfilled
\* code, one that is in neither failure set, and members of both sets.
SnapshotCodes ==
    { "fulfilled", "pending-evaluation", "capacity-not-available",
      "launch-group-constraint", "system-error" }

(***************************************************************************)
(* Exceptions.                                                             *)
(***************************************************************************)
NoExc == [type |-> "none", args |-> << >>]
EnvironmentError(args) == [type |-> "EnvironmentError", args |-> args]
KeyboardInterrupt == [type |-> "KeyboardInterrupt", args |-> << >>]
CalledProcessError == [type |-> "CalledProcessError", args |-> << >>]
KeyError(key) == [type |-> "KeyError", args |-> <<key>>]
ValueError == [type |-> "ValueError", args |-> << >>]

(***************************************************************************)
(* Launch specifications.  A document is a mapping from keys to values;    *)
(* a zone is a sequence of characters.                                     *)
(***************************************************************************)
Digits == { "0", "1", "2", "3", "4", "5", "6", "7", "8", "9" }
isdigit(c) == c \in Digits

ZoneChars == { "e", "1", "c" }
Zones == UNION { [1..n -> ZoneChars] : n \in 0..MaxZoneLen }

\* Files on disk that a USER_DATA_FILE_NAME can name.
UserDataFiles == { "ami_bootstrap" }
UserDataFileNames == { "", "ami_bootstrap", "no_such_file" }
FileContent(name) == "#!/bin/bash"

AllKeys == { "INSTANCE_COUNT", "MAX_SPOT_PRICE", "USER_DATA_FILE_NAME",
             "ImageId", "Placement", "UserData" }

Restrict(f, K) == [k \in (DOMAIN f) \cap K |-> f[k]]
Del(f, key) == Restrict(f, (DOMAIN f) \ {key})

FullDoc(zone, udf) ==
    [k \in AllKeys \ {"UserData"} |->
        CASE k = "INSTANCE_COUNT" -> "2"
          [] k = "MAX_SPOT_PRICE" -> "0.08"
          [] k = "USER_DATA_FILE_NAME" -> udf
          [] k = "ImageId" -> "ami-bba18dd2"
          [] k = "Placement" -> [AvailabilityZone |-> zone, GroupName |-> ""]]

Docs(zones, udfs) ==
    { Restrict(FullDoc(z, u), K \cup {"ImageId"}) :
        z \in zones, u \in udfs,
        K \in SUBSET { "INSTANCE_COUNT", "MAX_SPOT_PRICE",
                       "USER_DATA_FILE_NAME", "Placement" } }

\* The text of a launch specification file: well-formed json or not.
Inputs(zones, udfs) ==
    { [wellformed |-> TRUE, doc |-> d] : d \in Docs(zones, udfs) }
    \cup { [wellformed |-> FALSE, doc |-> Restrict(FullDoc(<< >>, ""), {})] }

base64(s) == <<"base64", s>>

\* region_switch: "" is << >>, " --region X " is <<"--region", X>>.
NoRegion == << >>
RegionSwitch(region) == <<"--region", region>>
StripLast(s) == SubSeq(s, 1, Len(s) - 1)

\* PlacementStep without the digit test of line 104: every zone is stripped.
PlacementStepAlwaysStrips(launch_spec) ==
    IF "Placement" \in DOMAIN launch_spec
    THEN LET zone == launch_spec["Placement"].AvailabilityZone IN
         IF zone # << >>
         THEN [region_switch |-> RegionSwitch(StripLast(zone)),
               launch_spec |-> launch_spec]
         ELSE [region_switch |-> NoRegion, launch_spec |-> launch_spec]
    ELSE [region_switch |-> NoRegion, launch_spec |-> launch_spec]

\* Lines 99-110: the region switch and the document after the placement step.
PlacementStep(launch_spec) ==
    IF "Placement" \in DOMAIN launch_spec
    THEN LET zone == launch_spec["Placement"].AvailabilityZone IN
         IF zone # << >>
         THEN IF isdigit(zone[Len(zone)])
              THEN [region_switch |-> RegionSwitch(zone),
                    launch_spec |-> Del(launch_spec, "Placement")]
              ELSE [region_switch |-> RegionSwitch(StripLast(zone)),
                    launch_spec |-> launch_spec]
         ELSE [region_switch |-> NoRegion, launch_spec |-> launch_spec]
    ELSE [region_switch |-> NoRegion, launch_spec |-> launch_spec]

\* UserDataStep without the raise of line 122: a missing file is skipped.
UserDataStepSkipsMissing(launch_spec) ==
    IF "USER_DATA_FILE_NAME" \in DOMAIN launch_spec
    THEN [exc |-> NoExc, launch_spec |-> Del(launch_spec, "USER_DATA_FILE_NAME")]
    ELSE [exc |-> NoExc, launch_spec |-> launch_spec]

\* Lines 112-122: the user data step; raises when the named file is missing.
UserDataStep(launch_spec) ==
    IF "USER_DATA_FILE_NAME" \in DOMAIN launch_spec
    THEN LET user_data_file_name == launch_spec["USER_DATA_FILE_NAME"]
             rest == Del(launch_spec, "USER_DATA_FILE_NAME")
         IN  IF user_data_file_name # ""
             THEN IF user_data_file_name \in UserDataFiles
                  THEN [exc |-> NoExc,
                        launch_spec |->
                          [k \in (DOMAIN rest) \cup {"UserData"} |->
                             IF k = "UserData"
                             THEN base64(FileContent(user_data_file_name))
                             ELSE rest[k]]]
                  ELSE [exc |-> EnvironmentError(<<"User data file not found.">>),
                        launch_spec |-> rest]
             ELSE [exc |-> NoExc, launch_spec |-> rest]
    ELSE [exc |-> NoExc, launch_spec |-> launch_spec]

Raised(e) ==
    [exc |-> e, instanceCount |-> "", maxSpotPrice |-> "",
     region_switch |-> NoRegion,
     amazon_launch_spec_json |-> Restrict(FullDoc(<< >>, ""), {})]

\* Lines 75-125.  The sorted-key serialisation of the remaining document is
\* represented by the document.
process_launch_spec(launch_spec_json) ==
    IF ~launch_spec_json.wellformed THEN Raised(ValueError)
    ELSE LET launch_spec == launch_spec_json.doc IN
    IF "INSTANCE_COUNT" \notin DOMAIN launch_spec
    THEN Raised(EnvironmentError(<<"INSTANCE_COUNT missing from launch configuration.">>))
    ELSE LET s1 == Del(launch_spec, "INSTANCE_COUNT") IN
    IF "MAX_SPOT_PRICE" \notin DOMAIN s1
    THEN Raised(EnvironmentError(<<"MAX_SPOT_PRICE missing from launch configuration.">>))
    ELSE LET s2 == Del(s1, "MAX_SPOT_PRICE")
             p == PlacementStep(s2)
             u == UserDataStep(p.launch_spec)
         IN  IF u.exc # NoExc THEN Raised(u.exc)
             ELSE [exc |-> NoExc,
                   instanceCount |-> launch_spec["INSTANCE_COUNT"],
                   maxSpotPrice |-> launch_spec["MAX_SPOT_PRICE"],
                   region_switch |-> p.region_switch,
                   amazon_launch_spec_json |-> u.launch_spec]

(***************************************************************************)
(* Provider data.                                                          *)
(***************************************************************************)
Range(s) == { s[i] : i \in 1..Len(s) }
IsInjective(s) == \A i, j \in 1..Len(s) : s[i] = s[j] => i = j
InjectiveSeqs(S) ==
    { s \in UNION { [1..k -> S] : k \in 0..Cardinality(S) } : IsInjective(s) }
IncreasingSeqs(S) ==
    { s \in InjectiveSeqs(S) : \A i, j \in 1..Len(s) : i < j => s[i] < s[j] }

\* Request identifiers: 1..n are created by this run, 0 is a request of
\* another run that the provider also reports.
ForeignId == 0
Message(id) ==
    CASE id = 0 -> "message of request 0"
      [] id = 1 -> "message of request 1"
      [] id = 2 -> "message of request 2"
      [] id = 3 -> "message of request 3"
      [] OTHER -> "message of a request"

Request(id, code) ==
    [SpotInstanceRequestId |-> id,
     Status |-> [Code |-> code, Message |-> Message(id)]]

\* Answers of describe-spot-instance-requests: every request at most once,
\* in any order, any subset of the requests known to the provider.
RequestSnapshots(n) ==
    UNION { { [j \in 1..Len(ids) |-> Request(ids[j], codes[j])] :
                codes \in [1..Len(ids) -> SnapshotCodes] } :
            ids \in InjectiveSeqs(0..n) }

\* An instance is a mapping; SpotInstanceRequestId and PublicIpAddress may
\* be absent from it.
FullInstance(id, sir) ==
    [k \in { "InstanceId", "PrivateIpAddress", "PublicIpAddress",
             "SpotInstanceRequestId" } |->
        CASE k = "InstanceId" -> id
          [] k = "PrivateIpAddress" -> 100 + id
          [] k = "PublicIpAddress" -> 200 + id
          [] k = "SpotInstanceRequestId" -> sir]

InstanceShapes(n) ==
    { [sir |-> sir, keys |-> K \cup {"InstanceId", "PrivateIpAddress"}] :
        sir \in 0..n, K \in SUBSET {"PublicIpAddress", "SpotInstanceRequestId"} }

\* Answers of describe-instances, the reservations flattened: every
\* instance at most once.
InstanceSnapshots(n) ==
    UNION { { [j \in 1..Len(ids) |->
                 Restrict(FullInstance(ids[j], shapes[j].sir), shapes[j].keys)] :
                shapes \in [1..Len(ids) -> InstanceShapes(n)] } :
            ids \in IncreasingSeqs(1..MaxInst) }

\* The answers for every size of batch, computed once.
RequestSnapshotsOf == [n \in 1..MaxReq |-> RequestSnapshots(n)]
InstanceSnapshotsOf == [n \in 1..MaxReq |-> InstanceSnapshots(n)]

HealthValues == { "initializing", "ok" }
InstanceStatus(id, sys, inst) ==
    [InstanceId |-> id, SystemStatus |-> [Status |-> sys],
     InstanceStatus |-> [Status |-> inst]]

\* Answers of describe-instance-status.
StatusSnapshots ==
    UNION { { [j \in 1..Len(ids) |-> InstanceStatus(ids[j], st[j][1], st[j][2])] :
                st \in [1..Len(ids) -> HealthValues \X HealthValues] } :
            ids \in IncreasingSeqs(1..MaxInst) }

(***************************************************************************)
(* State.                                                                  *)
(***************************************************************************)
VARIABLES
    pc,                           \* position of the run
    launch_spec_json,             \* text of the launch specification file
    wait_for_full_initialization, \* the -w switch
    amazon_launch_spec_json,      \* payload made by _process_launch_spec
    region_switch,
    amils_temp,                   \* the file amils_temp.json
    sirIDList,
    sirWaitingCount,
    requestsData,
    instanceRequest,              \* the request the poller is about to raise for
    instancesData,
    launchedInstanceList,
    statuses,
    oks,
    calls,                        \* aws commands issued so far, in order
    exc,                          \* exception in flight or handled by __main__
    stderr,
    exit_status

vars == << pc, launch_spec_json, wait_for_full_initialization,
           amazon_launch_spec_json, region_switch, amils_temp, sirIDList,
           sirWaitingCount, requestsData, instanceRequest, instancesData,
           launchedInstanceList, statuses, oks, calls, exc, stderr,
           exit_status >>

EmptyDoc == Restrict(FullDoc(<< >>, ""), {})
NoFile == [exists |-> FALSE, content |-> EmptyDoc]
NoRequest == Request(ForeignId, "")

Call(cmd, region, ids) == [cmd |-> cmd, region_switch |-> region, ids |-> ids]
Issued(cmd) == { i \in 1..Len(calls) : calls[i].cmd = cmd }

UsEast1c == << "u", "s", "-", "e", "a", "s", "t", "-", "1", "c" >>

InitWith(inputs) ==
    /\ pc = "start"
    /\ launch_spec_json \in inputs
    /\ wait_for_full_initialization \in BOOLEAN
    /\ amazon_launch_spec_json = EmptyDoc
    /\ region_switch = NoRegion
    /\ amils_temp = NoFile
    /\ sirIDList = << >>
    /\ sirWaitingCount = 0
    /\ requestsData = << >>
    /\ instanceRequest = NoRequest
    /\ instancesData = << >>
    /\ launchedInstanceList = << >>
    /\ statuses = << >>
    /\ oks = 0
    /\ calls = << >>
    /\ exc = NoExc
    /\ stderr = << >>
    /\ exit_status = -1

Init == InitWith(Inputs({UsEast1c}, {"no_such_file"}))

(***************************************************************************)
(* launch_EC2_spot_instances, lines 212-225: the submit step.              *)
(***************************************************************************)
\* Lines 213-224: the specification is processed; the payload is written to
\* amils_temp.json and request-spot-instances is issued.
LaunchStart ==
    /\ pc = "start"
    /\ LET r == process_launch_spec(launch_spec_json) IN
       IF r.exc # NoExc
       THEN /\ exc' = r.exc
            /\ pc' = "raised"
            /\ UNCHANGED << amazon_launch_spec_json, region_switch, amils_temp, calls >>
       ELSE /\ amazon_launch_spec_json' = r.amazon_launch_spec_json
            /\ region_switch' = r.region_switch
            /\ amils_temp' = [exists |-> TRUE, content |-> r.amazon_launch_spec_json]
            /\ calls' = Append(calls, Call("request-spot-instances", r.region_switch, << >>))
            /\ pc' = "submit"
            /\ exc' = exc
    /\ UNCHANGED << launch_spec_json, wait_for_full_initialization, sirIDList,
                    sirWaitingCount, requestsData, instanceRequest, instancesData,
                    launchedInstanceList, statuses, oks, stderr, exit_status >>

\* What every raise out of launch_EC2_spot_instances does: the locals of
\* the pollers are gone, the exception reaches __main__.
Raise(e) ==
    /\ exc' = e
    /\ pc' = "raised"
    /\ requestsData' = << >>
    /\ instanceRequest' = NoRequest
    /\ instancesData' = << >>
    /\ statuses' = << >>

\* Lines 224-232, 168-174: the submit call answers with n requests; the file
\* is removed and the poller starts with its first sleep.
SubmitReturns ==
    /\ pc = "submit"
    /\ \E n \in 1..MaxReq :
         /\ sirIDList' = [i \in 1..n |-> i]
         /\ sirWaitingCount' = n
    /\ amils_temp' = NoFile
    /\ pc' = "poll_sleep"
    /\ UNCHANGED << launch_spec_json, wait_for_full_initialization,
                    amazon_launch_spec_json, region_switch, requestsData,
                    instanceRequest, instancesData, launchedInstanceList,
                    statuses, oks, calls, exc, stderr, exit_status >>

\* Line 224: the submit call exits non-zero.
SubmitFails ==
    /\ pc = "submit"
    /\ Raise(CalledProcessError)
    /\ UNCHANGED << launch_spec_json, wait_for_full_initialization,
                    amazon_launch_spec_json, region_switch, amils_temp, sirIDList,
                    sirWaitingCount, launchedInstanceList, oks, calls, stderr,
                    exit_status >>

\* Line 224: the user interrupts the submit call.
SubmitInterrupted ==
    /\ pc = "submit"
    /\ Raise(KeyboardInterrupt)
    /\ UNCHANGED << launch_spec_json, wait_for_full_initialization,
                    amazon_launch_spec_json, region_switch, amils_temp, sirIDList,
                    sirWaitingCount, launchedInstanceList, oks, calls, stderr,
                    exit_status >>

(***************************************************************************)
(* _wait_for_launch_requests_to_fulfill, lines 159-200.                    *)
(***************************************************************************)
\* Lines 193 and 235 with the first identifier in place of the joined list.
CancelCallFirstOnly ==
    Call("cancel-spot-instance-requests", region_switch, << sirIDList[1] >>)

\* Lines 193 and 235.
CancelCall == Call("cancel-spot-instance-requests", region_switch, sirIDList)

\* Line 177 left out: the count of the previous snapshot is carried over.
CarryWaitingCount(ids, previous) == previous

\* Line 177.
ResetWaitingCount(ids, previous) == Len(ids)

\* Line 181 with a code the provider never reports.
IsFulfilledNever(code) == code = "active"

\* Line 181.
IsFulfilled(code) == code = FulfilledCode
\* Lines 183-188 with one more comparison, for a code of a request that is
\* still being evaluated.
IsPracticallyTerminalOrPending(code) ==
    code \in PracticallyTerminalCodes \cup { "pending-evaluation" }

\* Lines 183-188.
IsPracticallyTerminal(code) == code \in PracticallyTerminalCodes
\* Lines 196-199 without the first of the four comparisons.
IsTerminalButSystemError(code) == code \in TerminalCodes \ { "system-error" }

\* Lines 196-199.
IsTerminal(code) == code \in TerminalCodes
\* Line 180 left out: every request of the snapshot is examined.
TrackedAlways(request, ids) == TRUE

\* Line 180.
Tracked(request, ids) == request.SpotInstanceRequestId \in Range(ids)

\* Lines 179-200: the requests of the snapshot are examined in order from
\* position i with the count so far.  The result says how the loop ends:
\* "counted" at the end of the snapshot, "cancel" (line 193) or "raise"
\* (line 200) at the request in position at.
RECURSIVE Examine(_, _, _, _)
Examine(snapshot, ids, i, count) ==
    IF i > Len(snapshot)
    THEN [kind |-> "counted", count |-> count, at |-> 0]
    ELSE LET code == snapshot[i].Status.Code IN
         IF Tracked(snapshot[i], ids)
         THEN IF IsFulfilled(code)
              THEN Examine(snapshot, ids, i + 1, count - 1)
              ELSE IF IsPracticallyTerminal(code)
              THEN [kind |-> "cancel", count |-> count, at |-> i]
              ELSE IF IsTerminal(code)
              THEN [kind |-> "raise", count |-> count, at |-> i]
              ELSE Examine(snapshot, ids, i + 1, count)
         ELSE Examine(snapshot, ids, i + 1, count)

ProvisioningFailure(request) ==
    EnvironmentError(<< request.Status.Code, request.Status.Message >>)

\* Lines 174-175: the sleep ends and describe-spot-instance-requests is issued.
PollSleepDone ==
    /\ pc = "poll_sleep"
    /\ calls' = Append(calls, Call("describe-spot-instance-requests", region_switch, << >>))
    /\ pc' = "poll_describe"
    /\ UNCHANGED << launch_spec_json, wait_for_full_initialization,
                    amazon_launch_spec_json, region_switch, amils_temp, sirIDList,
                    sirWaitingCount, requestsData, instanceRequest, instancesData,
                    launchedInstanceList, statuses, oks, exc, stderr, exit_status >>

\* Lines 176-200: the snapshot arrives and is examined.  An answer "" (line
\* 178) is examined like an answer that reports no request.  The raise of
\* line 200 is made from inside the loop: the snapshot and the request it
\* is about stay as they are while the exception goes up to __main__.
PollDescribeReturns ==
    /\ pc = "poll_describe"
    /\ \E snapshot \in RequestSnapshotsOf[Len(sirIDList)] :
         LET r == Examine(snapshot, sirIDList, 1,
                          ResetWaitingCount(sirIDList, sirWaitingCount))
         IN  /\ requestsData' = snapshot
             /\ sirWaitingCount' = r.count
             /\ IF r.kind = "counted"
                THEN /\ pc' = "poll_check"
                     /\ UNCHANGED << instanceRequest, calls, exc, instancesData, statuses >>
                ELSE IF r.kind = "cancel"
                THEN /\ instanceRequest' = snapshot[r.at]
                     /\ calls' = Append(calls, CancelCall)
                     /\ pc' = "poll_cancel"
                     /\ UNCHANGED << exc, instancesData, statuses >>
                ELSE /\ instanceRequest' = snapshot[r.at]
                     /\ exc' = ProvisioningFailure(snapshot[r.at])
                     /\ pc' = "raised"
                     /\ UNCHANGED << calls, instancesData, statuses >>
    /\ UNCHANGED << launch_spec_json, wait_for_full_initialization,
                    amazon_launch_spec_json, region_switch, amils_temp, sirIDList,
                    launchedInstanceList, oks, stderr, exit_status >>

\* Line 176: the describe call exits non-zero.
PollDescribeFails ==
    /\ pc = "poll_describe"
    /\ Raise(CalledProcessError)
    /\ UNCHANGED << launch_spec_json, wait_for_full_initialization,
                    amazon_launch_spec_json, region_switch, amils_temp, sirIDList,
                    sirWaitingCount, launchedInstanceList, oks, calls, stderr,
                    exit_status >>

\* Line 169, and lines 240-241 when the loop ends: the poller returns and
\* describe-instances is issued.
PollLoopTest ==
    /\ pc = "poll_check"
    /\ IF sirWaitingCount > 0
       THEN /\ Cardinality(Issued("describe-spot-instance-requests")) < MaxPolls
            /\ pc' = "poll_sleep"
            /\ calls' = calls
       ELSE /\ pc' = "lookup"
            /\ calls' = Append(calls, Call("describe-instances", region_switch, << >>))
    /\ requestsData' = << >>
    /\ UNCHANGED << launch_spec_json, wait_for_full_initialization,
                    amazon_launch_spec_json, region_switch, amils_temp, sirIDList,
                    sirWaitingCount, instanceRequest, instancesData,
                    launchedInstanceList, statuses, oks, exc, stderr, exit_status >>

\* Lines 194-195: the cancel call of the poller ends and the failure is raised.
PollCancelReturns ==
    /\ pc = "poll_cancel"
    /\ Raise(ProvisioningFailure(instanceRequest))
    /\ UNCHANGED << launch_spec_json, wait_for_full_initialization,
                    amazon_launch_spec_json, region_switch, amils_temp, sirIDList,
                    sirWaitingCount, launchedInstanceList, oks, calls, stderr,
                    exit_status >>

\* Line 194: the cancel call of the poller exits non-zero.
PollCancelFails ==
    /\ pc = "poll_cancel"
    /\ Raise(CalledProcessError)
    /\ UNCHANGED << launch_spec_json, wait_for_full_initialization,
                    amazon_launch_spec_json, region_switch, amils_temp, sirIDList,
                    sirWaitingCount, launchedInstanceList, oks, calls, stderr,
                    exit_status >>

\* Lines 233-236: an interrupt during a sleep or a call of the poller is
\* caught and the cancel call of the handler is issued.
PollInterrupted ==
    /\ pc \in { "poll_sleep", "poll_describe", "poll_cancel" }
    /\ calls' = Append(calls, CancelCall)
    /\ pc' = "int_cancel"
    /\ requestsData' = << >>
    /\ instanceRequest' = NoRequest
    /\ UNCHANGED << launch_spec_json, wait_for_full_initialization,
                    amazon_launch_spec_json, region_switch, amils_temp, sirIDList,
                    sirWaitingCount, instancesData, launchedInstanceList, statuses,
                    oks, exc, stderr, exit_status >>

\* Lines 236-237: the cancel call of the handler ends; the interrupt is re-raised.
IntCancelReturns ==
    /\ pc = "int_cancel"
    /\ Raise(KeyboardInterrupt)
    /\ UNCHANGED << launch_spec_json, wait_for_full_initialization,
                    amazon_launch_spec_json, region_switch, amils_temp, sirIDList,
                    sirWaitingCount, launchedInstanceList, oks, calls, stderr,
                    exit_status >>

\* Line 236: the cancel call of the handler exits non-zero.
IntCancelFails ==
    /\ pc = "int_cancel"
    /\ Raise(CalledProcessError)
    /\ UNCHANGED << launch_spec_json, wait_for_full_initialization,
                    amazon_launch_spec_json, region_switch, amils_temp, sirIDList,
                    sirWaitingCount, launchedInstanceList, oks, calls, stderr,
                    exit_status >>

(***************************************************************************)
(* launch_EC2_spot_instances, lines 239-253: the instance lookup.          *)
(***************************************************************************)
\* The filter without the membership test of line 245.
IsLaunchedByAnyRequest(instance, ids) ==
    "SpotInstanceRequestId" \in DOMAIN instance

\* Lines 244-245: the filter of the list comprehension.
IsLaunchedByThisRequest(instance, ids) ==
    /\ "SpotInstanceRequestId" \in DOMAIN instance
    /\ instance["SpotInstanceRequestId"] \in Range(ids)

\* Line 243: the keys a record is built from.
RecordKeys == << "InstanceId", "PublicIpAddress", "PrivateIpAddress" >>

\* Lines 242-245: the list comprehension over the instances from position
\* i, with the records built so far; reading a key that an instance lacks
\* raises KeyError and no list is made.
RECURSIVE Resolve(_, _, _, _)
Resolve(instances, ids, i, records) ==
    IF i > Len(instances)
    THEN [exc |-> NoExc, list |-> records]
    ELSE IF IsLaunchedByThisRequest(instances[i], ids)
         THEN LET missing == { j \in 1..Len(RecordKeys) :
                                 RecordKeys[j] \notin DOMAIN instances[i] }
              IN  IF missing # {}
                  THEN [exc |-> KeyError(RecordKeys[CHOOSE j \in missing :
                                                      \A k \in missing : j <= k]),
                        list |-> << >>]
                  ELSE Resolve(instances, ids, i + 1,
                               Append(records,
                                      [k \in Range(RecordKeys) |-> instances[i][k]]))
         ELSE Resolve(instances, ids, i + 1, records)

\* Lines 241-245: the instances arrive and the list of launched instances
\* is built.
LookupReturns ==
    /\ pc = "lookup"
    /\ \E instances \in InstanceSnapshotsOf[Len(sirIDList)] :
         LET r == Resolve(instances, sirIDList, 1, << >>) IN
         IF r.exc # NoExc
         THEN /\ Raise(r.exc)
              /\ UNCHANGED launchedInstanceList
         ELSE /\ instancesData' = instances
              /\ launchedInstanceList' = r.list
              /\ pc' = "resolved"
              /\ UNCHANGED << exc, requestsData, instanceRequest, statuses >>
    /\ UNCHANGED << launch_spec_json, wait_for_full_initialization,
                    amazon_launch_spec_json, region_switch, amils_temp, sirIDList,
                    sirWaitingCount, oks, calls, stderr, exit_status >>

\* Line 241: describe-instances exits non-zero.
LookupFails ==
    /\ pc = "lookup"
    /\ Raise(CalledProcessError)
    /\ UNCHANGED << launch_spec_json, wait_for_full_initialization,
                    amazon_launch_spec_json, region_switch, amils_temp, sirIDList,
                    sirWaitingCount, launchedInstanceList, oks, calls, stderr,
                    exit_status >>

\* Line 241: the user interrupts describe-instances; no handler of
\* launch_EC2_spot_instances is around this call.
LookupInterrupted ==
    /\ pc = "lookup"
    /\ Raise(KeyboardInterrupt)
    /\ UNCHANGED << launch_spec_json, wait_for_full_initialization,
                    amazon_launch_spec_json, region_switch, amils_temp, sirIDList,
                    sirWaitingCount, launchedInstanceList, oks, calls, stderr,
                    exit_status >>

\* Lines 246-253 without the test of line 246.
AfterLookupAlwaysWaits ==
    /\ pc = "resolved"
    /\ pc' = "init_sleep"
    /\ instancesData' = << >>
    /\ UNCHANGED << launch_spec_json, wait_for_full_initialization,
                    amazon_launch_spec_json, region_switch, amils_temp, sirIDList,
                    sirWaitingCount, requestsData, instanceRequest,
                    launchedInstanceList, statuses, oks, calls, exc, stderr,
                    exit_status >>

\* Lines 246-253: the initialization wait starts with its first sleep, or
\* the list is returned at once.
AfterLookup ==
    /\ pc = "resolved"
    /\ pc' = IF wait_for_full_initialization THEN "init_sleep" ELSE "returned"
    /\ instancesData' = << >>
    /\ UNCHANGED << launch_spec_json, wait_for_full_initialization,
                    amazon_launch_spec_json, region_switch, amils_temp, sirIDList,
                    sirWaitingCount, requestsData, instanceRequest,
                    launchedInstanceList, statuses, oks, calls, exc, stderr,
                    exit_status >>

(***************************************************************************)
(* _wait_for_full_initialization, lines 128-156.                           *)
(***************************************************************************)
\* Lines 150-151, without the comparison of line 152.
IsInitializedBySystemStatus(launchedInstance, status) ==
    /\ launchedInstance["InstanceId"] = status.InstanceId
    /\ status.SystemStatus.Status # "initializing"

\* Lines 150-152.
IsInitialized(launchedInstance, status) ==
    /\ launchedInstance["InstanceId"] = status.InstanceId
    /\ status.SystemStatus.Status # "initializing"
    /\ status.InstanceStatus.Status # "initializing"

\* Lines 147-153.
CountOks(list, snapshot) ==
    Cardinality({ p \in (1..Len(list)) \X (1..Len(snapshot)) :
                    IsInitialized(list[p[1]], snapshot[p[2]]) })

\* Lines 144-145: the sleep ends and describe-instance-status is issued.
InitSleepDone ==
    /\ pc = "init_sleep"
    /\ calls' = Append(calls, Call("describe-instance-status", region_switch, << >>))
    /\ pc' = "init_describe"
    /\ UNCHANGED << launch_spec_json, wait_for_full_initialization,
                    amazon_launch_spec_json, region_switch, amils_temp, sirIDList,
                    sirWaitingCount, requestsData, instanceRequest, instancesData,
                    launchedInstanceList, statuses, oks, exc, stderr, exit_status >>

\* Lines 146-153: the statuses arrive and are counted.
InitDescribeReturns ==
    /\ pc = "init_describe"
    /\ \E snapshot \in StatusSnapshots :
         /\ statuses' = snapshot
         /\ oks' = CountOks(launchedInstanceList, snapshot)
    /\ pc' = "init_check"
    /\ UNCHANGED << launch_spec_json, wait_for_full_initialization,
                    amazon_launch_spec_json, region_switch, amils_temp, sirIDList,
                    sirWaitingCount, requestsData, instanceRequest, instancesData,
                    launchedInstanceList, calls, exc, stderr, exit_status >>

\* Line 146: describe-instance-status exits non-zero.
InitDescribeFails ==
    /\ pc = "init_describe"
    /\ Raise(CalledProcessError)
    /\ UNCHANGED << launch_spec_json, wait_for_full_initialization,
                    amazon_launch_spec_json, region_switch, amils_temp, sirIDList,
                    sirWaitingCount, launchedInstanceList, oks, calls, stderr,
                    exit_status >>

\* Lines 144-146: the user interrupts the sleep or the call; nothing
\* catches the interrupt before __main__.
InitInterrupted ==
    /\ pc \in { "init_sleep", "init_describe" }
    /\ Raise(KeyboardInterrupt)
    /\ UNCHANGED << launch_spec_json, wait_for_full_initialization,
                    amazon_launch_spec_json, region_switch, amils_temp, sirIDList,
                    sirWaitingCount, launchedInstanceList, oks, calls, stderr,
                    exit_status >>

\* Lines 155-156, 139, 249-253.
InitLoopTest ==
    /\ pc = "init_check"
    /\ IF oks = Len(launchedInstanceList)
       THEN pc' = "returned"
       ELSE /\ Cardinality(Issued("describe-instance-status")) < MaxPolls
            /\ pc' = "init_sleep"
    /\ statuses' = << >>
    /\ UNCHANGED << launch_spec_json, wait_for_full_initialization,
                    amazon_launch_spec_json, region_switch, amils_temp, sirIDList,
                    sirWaitingCount, requestsData, instanceRequest, instancesData,
                    launchedInstanceList, oks, calls, exc, stderr, exit_status >>

(***************************************************************************)
(* __main__, lines 300-345.                                                *)
(***************************************************************************)
\* A handler without its os.remove.
RemoveNothing(file) == file

\* Lines 317, 327, 342: os.remove in a try that swallows its failure.
RemoveQuietly(file) == NoFile

\* Lines 307-345: what the handler of the exception writes to stderr.
HandlerMessages(e) ==
    IF e.type = "EnvironmentError"
    THEN << "ERROR.", e.args,
            "Any pending spot requests from this have been canceled to avoid zombies." >>
    ELSE IF e.type = "KeyboardInterrupt"
    THEN << "*** KeyboardInterrupt - aborting launch ***", e.args,
            "Any pending spot requests are in an unknown state." >>
    ELSE << "Exiting due to AWS client problem.", e.args, "" >>

\* Lines 301-306: the list came back; the addresses are printed and the
\* script ends.
MainPrints ==
    /\ pc = "returned"
    /\ pc' = "exited"
    /\ exit_status' = 0
    /\ UNCHANGED << launch_spec_json, wait_for_full_initialization,
                    amazon_launch_spec_json, region_switch, amils_temp, sirIDList,
                    sirWaitingCount, requestsData, instanceRequest, instancesData,
                    launchedInstanceList, statuses, oks, calls, exc, stderr >>

\* Lines 307-345: an exception came back; its handler reports, removes the
\* file and exits with 1.
MainHandles ==
    /\ pc = "raised"
    /\ stderr' = HandlerMessages(exc)
    /\ amils_temp' = RemoveQuietly(amils_temp)
    /\ exit_status' = 1
    /\ pc' = "exited"
    /\ requestsData' = << >>
    /\ instanceRequest' = NoRequest
    /\ UNCHANGED << launch_spec_json, wait_for_full_initialization,
                    amazon_launch_spec_json, region_switch, sirIDList,
                    sirWaitingCount, instancesData, launchedInstanceList,
                    statuses, oks, calls, exc >>

Next ==
    \/ LaunchStart
    \/ SubmitReturns
    \/ SubmitFails
    \/ SubmitInterrupted
    \/ PollSleepDone
    \/ PollDescribeReturns
    \/ PollDescribeFails
    \/ PollLoopTest
    \/ PollCancelReturns
    \/ PollCancelFails
    \/ PollInterrupted
    \/ IntCancelReturns
    \/ IntCancelFails
    \/ LookupReturns
    \/ LookupFails
    \/ LookupInterrupted
    \/ AfterLookup
    \/ InitSleepDone
    \/ InitDescribeReturns
    \/ InitDescribeFails
    \/ InitInterrupted
    \/ InitLoopTest
    \/ MainPrints
    \/ MainHandles

Spec == Init /\ [][Next]_vars

(***************************************************************************)
(* _process_launch_spec alone, over a wider set of launch specifications.  *)
(***************************************************************************)
InitProcess == InitWith(Inputs(Zones, UserDataFileNames))

\* Line 213: the call of _process_launch_spec and what it gives back.
Process ==
    /\ pc = "start"
    /\ LET r == process_launch_spec(launch_spec_json) IN
         /\ exc' = r.exc
         /\ region_switch' = r.region_switch
         /\ amazon_launch_spec_json' = r.amazon_launch_spec_json
    /\ pc' = "processed"
    /\ UNCHANGED << launch_spec_json, wait_for_full_initialization, amils_temp,
                    sirIDList, sirWaitingCount, requestsData, instanceRequest,
                    instancesData, launchedInstanceList, statuses, oks, calls,
                    stderr, exit_status >>

NextProcess == Process

SpecProcess == InitProcess /\ [][NextProcess]_vars

(***************************************************************************)
(* The successful run: the program under a provider that answers every     *)
(* call, never shows a failure code for a request of the batch, reports    *)
(* every request of the batch as fulfilled in one snapshot at the latest   *)
(* in the snapshot number MaxPolls, reports for every request of the batch *)
(* exactly one instance, with both addresses, and reports every launched   *)
(* instance as initialized at the latest in the health snapshot number     *)
(* MaxPolls; the user does not interrupt.  The program is sequential and   *)
(* every call returns, so the run goes on as long as a step is possible.   *)
(***************************************************************************)
IsFailureCode(code) == IsPracticallyTerminal(code) \/ IsTerminal(code)

GoodRequests ==
    /\ \A j \in 1..Len(requestsData) :
          Tracked(requestsData[j], sirIDList)
              => ~IsFailureCode(requestsData[j].Status.Code)
    /\ Cardinality(Issued("describe-spot-instance-requests")) = MaxPolls
          => \A id \in Range(sirIDList) :
                \E j \in 1..Len(requestsData) :
                   requestsData[j] = Request(id, FulfilledCode)

GoodInstances ==
    \A id \in Range(sirIDList) :
       /\ Cardinality({ j \in 1..Len(instancesData) :
             /\ "SpotInstanceRequestId" \in DOMAIN instancesData[j]
             /\ instancesData[j]["SpotInstanceRequestId"] = id }) = 1
       /\ \A j \in 1..Len(instancesData) :
             ("SpotInstanceRequestId" \in DOMAIN instancesData[j]
                 /\ instancesData[j]["SpotInstanceRequestId"] = id)
             => { "PublicIpAddress", "PrivateIpAddress" } \subseteq DOMAIN instancesData[j]

GoodHealth ==
    Cardinality(Issued("describe-instance-status")) = MaxPolls
        => \A k \in 1..Len(launchedInstanceList) :
              \E j \in 1..Len(statuses) :
                 statuses[j] = InstanceStatus(launchedInstanceList[k]["InstanceId"], "ok", "ok")

NextSuccess ==
    \/ LaunchStart
    \/ SubmitReturns
    \/ PollSleepDone
    \/ PollDescribeReturns /\ GoodRequests'
    \/ PollLoopTest
    \/ LookupReturns /\ GoodInstances'
    \/ AfterLookup
    \/ InitSleepDone
    \/ InitDescribeReturns /\ GoodHealth'
    \/ InitLoopTest
    \/ MainPrints
    \/ MainHandles

SpecSuccess == Init /\ [][NextSuccess]_vars /\ WF_vars(NextSuccess)

(***************************************************************************)
(* Properties.                                                             *)
(***************************************************************************)
Submitted == sirIDList # << >>
CancelsIssued == Issued("cancel-spot-instance-requests")
CoversBatch(call) ==
    /\ call.cmd = "cancel-spot-instance-requests"
    /\ Range(call.ids) = Range(sirIDList)
FailureReachedCaller == pc \in { "raised", "exited" } /\ exc # NoExc

\* C1: every failure other than an interrupt that reaches the caller after
\* the requests were submitted is preceded by a cancel call that covers all
\* the requests of this run.
C1_FailureCancelsAll ==
    (FailureReachedCaller /\ Submitted /\ exc.type # "KeyboardInterrupt")
        => \E i \in CancelsIssued : CoversBatch(calls[i])

\* C2: once a snapshot made the poller cancel for a practically-terminal
\* code, exactly one cancel call, for all the requests, has been issued in
\* the run, and the next thing that happens is the raise of the provisioning
\* failure with the code and the message of that request, with no other call.
C2_PracticallyTerminalCancelsOnceThenRaises ==
    [][ pc = "poll_cancel" =>
          /\ \E j \in 1..Len(requestsData) : requestsData[j] = instanceRequest
          /\ instanceRequest.SpotInstanceRequestId \in Range(sirIDList)
          /\ instanceRequest.Status.Code \in PracticallyTerminalCodes
          /\ Cardinality(CancelsIssued) = 1
          /\ \A i \in CancelsIssued : calls[i].ids = sirIDList
          /\ pc' = "raised"
          /\ exc' = EnvironmentError(<< instanceRequest.Status.Code,
                                        instanceRequest.Status.Message >>)
          /\ calls' = calls ]_vars

AllTrackedFulfilled(snapshot, ids) ==
    \A id \in Range(ids) :
       \E j \in 1..Len(snapshot) :
          /\ snapshot[j].SpotInstanceRequestId = id
          /\ snapshot[j].Status.Code = "fulfilled"

\* C3: at the loop test of the poller, the poller returns (and the instance
\* lookup starts) only when the snapshot just examined reports every
\* tracked request as fulfilled; with any tracked request not fulfilled in,
\* or absent from, that snapshot the next step is another sleep.
C3_ReturnsOnlyOnFullSnapshot ==
    [][ pc = "poll_check" =>
          IF AllTrackedFulfilled(requestsData, sirIDList)
          THEN pc' = "lookup"
          ELSE pc' = "poll_sleep" ]_vars

\* C3 witness: the poller of a batch of two returned after its second
\* snapshot; the first one left a request unfulfilled.
C3_Witness ==
    /\ pc = "lookup"
    /\ Len(sirIDList) = 2
    /\ Cardinality(Issued("describe-spot-instance-requests")) = 2

\* C4: when the invocation has completed, amils_temp.json is not on disk.
C4_FileAbsentAfterExit ==
    pc = "exited" => ~amils_temp.exists

\* C4 witness: the run ended after the submit call failed, which is while
\* the file existed.
C4_Witness ==
    /\ pc = "exited"
    /\ exc = CalledProcessError
    /\ Len(calls) = 1
    /\ calls[1].cmd = "request-spot-instances"

\* C5: an interrupt that propagates to the caller after the requests were
\* submitted was preceded, as the last call of the run, by a cancel call that
\* covers all the requests of this run.
C5_InterruptCancelsAll ==
    (FailureReachedCaller /\ Submitted /\ exc = KeyboardInterrupt)
        => CoversBatch(calls[Len(calls)])

OwnedByBatch(record, instances, ids) ==
    \E j \in 1..Len(instances) :
       /\ instances[j]["InstanceId"] = record["InstanceId"]
       /\ "SpotInstanceRequestId" \in DOMAIN instances[j]
       /\ \E k \in 1..Len(ids) : ids[k] = instances[j]["SpotInstanceRequestId"]

ListBuiltFromBatch ==
    pc = "resolved" =>
        \A i \in 1..Len(launchedInstanceList) :
           OwnedByBatch(launchedInstanceList[i], instancesData, sirIDList)

ListKept ==
    pc \in { "resolved", "init_sleep", "init_describe", "init_check", "returned" }
        => launchedInstanceList' = launchedInstanceList

\* C6: every record of the list built by the lookup is the record of an
\* instance of the snapshot whose request identifier is one of this run's,
\* and the list is returned as it was built.
C6_OnlyBatchInstances == []ListBuiltFromBatch /\ [][ListKept]_vars

\* C6 witness: a list was built from a snapshot that holds an instance of
\* this run and an instance of a request of another run.
C6_Witness ==
    /\ pc = "resolved"
    /\ Len(launchedInstanceList) = 1
    /\ \E j \in 1..Len(instancesData) :
          /\ "SpotInstanceRequestId" \in DOMAIN instancesData[j]
          /\ "PublicIpAddress" \in DOMAIN instancesData[j]
          /\ instancesData[j]["SpotInstanceRequestId"] = ForeignId

NamesMissingUserDataFile(doc) ==
    /\ "USER_DATA_FILE_NAME" \in DOMAIN doc
    /\ doc["USER_DATA_FILE_NAME"] \notin { "", "ami_bootstrap" }

Invalid(input) ==
    /\ input.wellformed
    /\ \/ "INSTANCE_COUNT" \notin DOMAIN input.doc
       \/ "MAX_SPOT_PRICE" \notin DOMAIN input.doc
       \/ NamesMissingUserDataFile(input.doc)

\* C7: for a launch specification without INSTANCE_COUNT or MAX_SPOT_PRICE,
\* or naming a user data file that does not exist, the run fails with an
\* EnvironmentError, no aws command is ever issued and amils_temp.json never
\* exists.
C7_InvalidSpecFailsBeforeAnyCall ==
    Invalid(launch_spec_json) =>
        /\ calls = << >>
        /\ ~amils_temp.exists
        /\ pc \in { "start", "raised", "exited" }
        /\ pc # "start" => exc.type = "EnvironmentError"

\* C7 witness: a run ended whose specification has both mandatory fields
\* and names a missing user data file.
C7_Witness ==
    /\ pc = "exited"
    /\ "INSTANCE_COUNT" \in DOMAIN launch_spec_json.doc
    /\ "MAX_SPOT_PRICE" \in DOMAIN launch_spec_json.doc
    /\ NamesMissingUserDataFile(launch_spec_json.doc)

LastIsDigit(zone) ==
    zone[Len(zone)] \in { "0", "1", "2", "3", "4", "5", "6", "7", "8", "9" }

\* C8: after _process_launch_spec succeeded: a non-empty zone ending in a
\* digit gives the whole zone as the region and a payload without
\* Placement; a zone ending in another character gives the zone minus its
\* last character as the region and the Placement unchanged; no placement or
\* an empty zone gives no region switch and the placement as it was given.
C8_RegionDerivation ==
    (pc = "processed" /\ exc = NoExc) =>
        LET doc == launch_spec_json.doc
            payload == amazon_launch_spec_json
        IN  IF "Placement" \notin DOMAIN doc
            THEN region_switch = << >> /\ "Placement" \notin DOMAIN payload
            ELSE LET zone == doc["Placement"].AvailabilityZone IN
                 IF Len(zone) = 0
                 THEN /\ region_switch = << >>
                      /\ "Placement" \in DOMAIN payload
                      /\ payload["Placement"] = doc["Placement"]
                 ELSE IF LastIsDigit(zone)
                 THEN /\ region_switch = << "--region", zone >>
                      /\ "Placement" \notin DOMAIN payload
                 ELSE /\ region_switch =
                           << "--region", [i \in 1..(Len(zone) - 1) |-> zone[i]] >>
                      /\ "Placement" \in DOMAIN payload
                      /\ payload["Placement"] = doc["Placement"]

\* C8 witness: a specification with a zone of two characters ending in a
\* digit was processed successfully.
C8_Witness ==
    /\ pc = "processed"
    /\ exc = NoExc
    /\ "Placement" \in DOMAIN launch_spec_json.doc
    /\ Len(launch_spec_json.doc["Placement"].AvailabilityZone) = 2
    /\ LastIsDigit(launch_spec_json.doc["Placement"].AvailabilityZone)

\* C9: a cancel call never replaces the error that caused it: what leaves
\* the cancel call of the poller is the provisioning failure of the request
\* that caused it, and what leaves the cancel call of the interrupt handler
\* is the interrupt.
C9_CancelNeverMasks ==
    [][ /\ (pc = "poll_cancel" /\ pc' = "raised")
            => exc' = EnvironmentError(<< instanceRequest.Status.Code,
                                          instanceRequest.Status.Message >>)
        /\ (pc = "int_cancel" /\ pc' = "raised")
            => exc' = KeyboardInterrupt ]_vars

\* C10: the instance lookup never fails because an instance of this run
\* has no public address.
C10_ToleratesMissingPublicAddress ==
    exc # KeyError("PublicIpAddress")

\* C11: whenever launch_EC2_spot_instances has been left after it wrote the
\* staged payload file, by a return or by an exception, the file is already
\* removed when control is back in the caller, before any cleanup of the
\* caller has run.
C11_FileRemovedByFunction ==
    (pc \in { "returned", "raised" } /\ Cardinality(Issued("request-spot-instances")) > 0)
        => ~amils_temp.exists

UsEast1 == << "u", "s", "-", "e", "a", "s", "t", "-", "1" >>

RunInUsEast1c ==
    /\ "Placement" \in DOMAIN launch_spec_json.doc
    /\ launch_spec_json.doc["Placement"].AvailabilityZone = UsEast1c

ReturnedBatchList ==
    /\ pc \in { "returned", "exited" }
    /\ exc = NoExc
    /\ Len(launchedInstanceList) = Len(sirIDList)
    /\ \A k \in 1..Len(launchedInstanceList) :
          DOMAIN launchedInstanceList[k] = Range(RecordKeys)

\* The list just built has, for every request of the batch, exactly one
\* record, made of the id and the two addresses of the instance of that
\* request.
OneRecordPerRequest ==
    pc = "resolved" =>
        \A id \in Range(sirIDList) :
           Cardinality({ k \in 1..Len(launchedInstanceList) :
              \E j \in 1..Len(instancesData) :
                 /\ Range(RecordKeys) \cup { "SpotInstanceRequestId" }
                       \subseteq DOMAIN instancesData[j]
                 /\ instancesData[j]["SpotInstanceRequestId"] = id
                 /\ launchedInstanceList[k] =
                       [key \in Range(RecordKeys) |-> instancesData[j][key]] }) = 1

ScopedToUsEast1 ==
    RunInUsEast1c =>
        \A i \in DOMAIN calls : calls[i].region_switch = << "--region", UsEast1 >>

\* C12: under the provider of the successful run, once the submit call has
\* returned the requests of the batch, the invocation eventually returns a
\* list with as many records {instance id, public address, private address}
\* as requests, one record for each request of the batch, and when the zone
\* is us-east-1c every call of the run carries the region us-east-1.
C12_SuccessfulRunReturnsBatch ==
    /\ Submitted ~> ReturnedBatchList
    /\ []OneRecordPerRequest
    /\ [][ListKept]_vars
    /\ []ScopedToUsEast1

\* C12 witness: a run in us-east-1c with two requests that were not all
\* fulfilled in the first snapshot, and with the wait for initialization
\* needing two health snapshots, has returned two records.
C12_Witness ==
    /\ pc = "returned"
    /\ RunInUsEast1c
    /\ Len(sirIDList) = 2
    /\ Len(launchedInstanceList) = 2
    /\ Cardinality(Issued("describe-spot-instance-requests")) = 2
    /\ Cardinality(Issued("describe-instance-status")) = 2

InBatch(request) == request.SpotInstanceRequestId \in Range(sirIDList)
RaisedByExamination == pc = "raised" /\ requestsData # << >>
FailureCodes == PracticallyTerminalCodes \cup TerminalCodes
LastCall == calls[Len(calls)]

\* A snapshot with a request of the batch in a terminal code is never
\* counted: the loop test is not reached with it.
TerminalNeverCounted ==
    pc = "poll_check" =>
        \A j \in 1..Len(requestsData) :
           InBatch(requestsData[j]) => requestsData[j].Status.Code \notin TerminalCodes

\* Only a request of the batch in a practically-terminal code that comes
\* earlier in the snapshot keeps a terminal one from being raised.
TerminalOnlyPreempted ==
    pc = "poll_cancel" =>
        \A j \in 1..Len(requestsData) :
           (InBatch(requestsData[j]) /\ requestsData[j].Status.Code \in TerminalCodes)
               => \E i \in 1..(j - 1) : requestsData[i] = instanceRequest

\* The raise for a terminal code: it is about a request of the batch in the
\* snapshot, carries its code and message, and the last call of the run is
\* the describe call that brought the snapshot.
TerminalRaise ==
    RaisedByExamination =>
        /\ \E j \in 1..Len(requestsData) : requestsData[j] = instanceRequest
        /\ InBatch(instanceRequest)
        /\ instanceRequest.Status.Code \in TerminalCodes
        /\ exc = EnvironmentError(<< instanceRequest.Status.Code,
                                     instanceRequest.Status.Message >>)
        /\ LastCall.cmd = "describe-spot-instance-requests"

RaisedForTerminalCode ==
    /\ exc.type = "EnvironmentError"
    /\ Len(exc.args) = 2
    /\ exc.args[1] \in TerminalCodes

NothingAfterTerminalRaise ==
    RaisedForTerminalCode =>
        /\ pc \in { "raised", "exited" }
        /\ LastCall.cmd = "describe-spot-instance-requests"
        /\ Issued("describe-instances") = { }
        /\ Issued("describe-instance-status") = { }
        /\ calls' = calls

\* C13: a snapshot in which the poller comes to a request of the batch with
\* a terminal code makes it raise the provisioning failure with that code
\* and message at once: the snapshot is not counted, the describe call that
\* brought it stays the last call of the run, and no describe-instances or
\* describe-instance-status call is ever made.
C13_TerminalRaisesAtOnce ==
    /\ [](TerminalNeverCounted /\ TerminalOnlyPreempted /\ TerminalRaise)
    /\ [][NothingAfterTerminalRaise]_vars

\* C13 witness: the second snapshot of a run with two requests made the
\* poller raise for system-error.
C13_Witness ==
    /\ RaisedByExamination
    /\ Len(sirIDList) = 2
    /\ Cardinality(Issued("describe-spot-instance-requests")) = 2
    /\ exc.args[1] = "system-error"

InInitializationWait == pc \in { "init_sleep", "init_describe", "init_check" }

AllInitialized(list, snapshot) ==
    \A k \in 1..Len(list) :
       \E j \in 1..Len(snapshot) :
          /\ snapshot[j].InstanceId = list[k]["InstanceId"]
          /\ snapshot[j].SystemStatus.Status # "initializing"
          /\ snapshot[j].InstanceStatus.Status # "initializing"

WaitEndsOnInitializedSnapshot ==
    pc = "init_check" =>
        IF AllInitialized(launchedInstanceList, statuses)
        THEN pc' = "returned"
        ELSE pc' = "init_sleep"

WaitLeftOnlyAtItsTest ==
    (InInitializationWait /\ ~InInitializationWait') =>
        \/ pc = "init_check" /\ pc' = "returned" /\ exc' = NoExc
        \/ /\ pc \in { "init_sleep", "init_describe" }
           /\ pc' = "raised"
           /\ exc' \in { KeyboardInterrupt, CalledProcessError }

\* C14: the wait for initialization returns exactly at a loop test whose
\* health snapshot reports every instance of the list with a system status
\* and an instance status other than initializing; with an instance missing
\* from the snapshot or initializing, the wait goes to the next sleep; the
\* only other ways out of the wait are an interrupt and a failed describe
\* call.
C14_WaitReturnsOnlyWhenAllInitialized ==
    [][WaitEndsOnInitializedSnapshot /\ WaitLeftOnlyAtItsTest]_vars

\* C14 witness: the second health snapshot of a wait for two instances
\* reports both as initialized.
C14_Witness ==
    /\ pc = "init_check"
    /\ Len(launchedInstanceList) = 2
    /\ Cardinality(Issued("describe-instance-status")) = 2
    /\ AllInitialized(launchedInstanceList, statuses)

LookupsIssued == Issued("describe-instances")
HealthChecksIssued == Issued("describe-instance-status")

\* The lookup is the call that follows the last describe call of a poller
\* that counted no request as waiting, and no cancel call was made.
LookupAfterPollerReturned ==
    \A i \in LookupsIssued :
       /\ i > 1
       /\ calls[i - 1].cmd = "describe-spot-instance-requests"
       /\ sirWaitingCount = 0
       /\ exc.type # "EnvironmentError"
       /\ CancelsIssued = { }

\* Every describe-instance-status call comes after the lookup, in a run
\* with the wait flag.
HealthChecksAfterLookup ==
    \A i \in HealthChecksIssued :
       /\ wait_for_full_initialization
       /\ \E j \in LookupsIssued : j < i

\* In the fulfillment wait the poller failed or the user interrupted.
FulfillmentWaitFailed ==
    \/ pc \in { "poll_cancel", "int_cancel" }
    \/ CancelsIssued # { }
    \/ exc.type = "EnvironmentError" /\ Len(exc.args) = 2

\* C15: describe-instances is issued only right after a poller that
\* returned normally, describe-instance-status only after describe-instances
\* and only with the wait flag set, and a run whose fulfillment wait ended
\* by an interrupt or a provisioning failure has neither of these calls.
C15_PhasesInOrder ==
    /\ LookupAfterPollerReturned
    /\ HealthChecksAfterLookup
    /\ pc \in { "lookup", "resolved" } => LookupsIssued # { }
    /\ InInitializationWait => (LookupsIssued # { } /\ wait_for_full_initialization)
    /\ FulfillmentWaitFailed => (LookupsIssued = { } /\ HealthChecksIssued = { })

\* C15 witness: a run with the wait flag polled twice for fulfillment, looked
\* the instances up and is reading the health of its instances.
C15_Witness ==
    /\ pc = "init_describe"
    /\ Cardinality(Issued("describe-spot-instance-requests")) = 2
    /\ Cardinality(LookupsIssued) = 1
    /\ Len(launchedInstanceList) > 0

\* A snapshot has been examined and is still at hand.
SnapshotExamined == pc \in { "poll_check", "poll_cancel" } \/ RaisedByExamination

BatchFulfilledIn(snapshot) ==
    { j \in 1..Len(snapshot) :
        InBatch(snapshot[j]) /\ snapshot[j].Status.Code = "fulfilled" }

BatchFailingIn(snapshot) ==
    { j \in 1..Len(snapshot) :
        InBatch(snapshot[j]) /\ snapshot[j].Status.Code \in FailureCodes }

ForeignIn(snapshot) == { j \in 1..Len(snapshot) : ~InBatch(snapshot[j]) }

\* C16: requests of a snapshot that are not of the batch change nothing:
\* at the loop test the count of waiting requests is the size of the batch
\* minus the fulfilled requests of the batch, whatever the other requests
\* show; a snapshot in which no request of the batch has a failure code is
\* counted, without failure and without cancel call; and the request a
\* failure or a cancel call is about is always one of the batch.
C16_ForeignRequestsIgnored ==
    SnapshotExamined =>
        /\ pc = "poll_check" =>
              sirWaitingCount = Len(sirIDList) - Cardinality(BatchFulfilledIn(requestsData))
        /\ BatchFailingIn(requestsData) = { } =>
              (pc = "poll_check" /\ exc = NoExc /\ CancelsIssued = { })
        /\ pc # "poll_check" =>
              (InBatch(instanceRequest)
                 /\ \E j \in BatchFailingIn(requestsData) : requestsData[j] = instanceRequest)

\* C16 witness: a snapshot with a request that is not of the batch in a
\* failure code was counted, and a request of the batch is still waiting.
C16_Witness ==
    /\ pc = "poll_check"
    /\ sirWaitingCount > 0
    /\ \E j \in ForeignIn(requestsData) : requestsData[j].Status.Code \in FailureCodes

BatchPendingIn(snapshot) ==
    { j \in 1..Len(snapshot) :
        /\ InBatch(snapshot[j])
        /\ snapshot[j].Status.Code \notin { "fulfilled" } \cup FailureCodes }

\* A request of the batch with another code is counted as waiting, and is
\* never the request a cancel call or a raise is about.
PendingStaysPending ==
    SnapshotExamined =>
        /\ pc = "poll_check" =>
              sirWaitingCount >= Cardinality(BatchPendingIn(requestsData))
        /\ pc # "poll_check" => instanceRequest.Status.Code \in FailureCodes
        /\ \A j \in BatchPendingIn(requestsData) :
              pc = "poll_cancel" => requestsData[j] # instanceRequest

\* With such a request in the snapshot the loop test goes to the next
\* sleep, with no call and no exception; the sleep is left only to the next
\* describe call or by an interrupt, and the describe call only by its
\* answer, by its failure or by an interrupt.
PollerKeepsPolling ==
    /\ (pc = "poll_check" /\ BatchPendingIn(requestsData) # { })
          => (pc' = "poll_sleep" /\ calls' = calls /\ exc' = NoExc)
    /\ pc = "poll_sleep" => pc' \in { "poll_describe", "int_cancel" }
    /\ pc = "poll_describe" =>
          \/ pc' \in { "poll_check", "poll_cancel", "int_cancel" }
          \/ pc' = "raised" /\ (exc' = CalledProcessError \/ RaisedByExamination')

\* C17: a request of the batch whose code is neither fulfilled nor one of
\* the failure codes is counted as waiting and never causes a cancel call or
\* a failure; as long as the snapshots show such a request the poller goes
\* from the loop test to the next sleep and the next describe call, and it
\* leaves this cycle only by an interrupt or a failed call.
C17_PendingKeepsPolling ==
    []PendingStaysPending /\ [][PollerKeepsPolling]_vars

\* C17 witness: the poller polled again and its second snapshot shows a
\* request of the batch as pending-evaluation, next to a fulfilled one.
C17_Witness ==
    /\ pc = "poll_check"
    /\ Cardinality(Issued("describe-spot-instance-requests")) = 2
    /\ BatchPendingIn(requestsData) # { }
    /\ BatchFulfilledIn(requestsData) # { }

FirstFailingIn(snapshot) ==
    CHOOSE j \in BatchFailingIn(snapshot) :
       \A i \in BatchFailingIn(snapshot) : j <= i

\* The request the outcome is about is the first failing request of the
\* batch in the order of the snapshot; the requests after it were not
\* counted; a cancel call was issued exactly when its code is
\* practically-terminal, and with a terminal code the failure with its code
\* and message was raised with no cancel call.
FirstFailingDecides ==
    (SnapshotExamined /\ BatchFailingIn(requestsData) # { }) =>
        LET first == FirstFailingIn(requestsData)
            code == requestsData[first].Status.Code
        IN  /\ instanceRequest = requestsData[first]
            /\ sirWaitingCount = Len(sirIDList)
                 - Cardinality({ j \in BatchFulfilledIn(requestsData) : j < first })
            /\ code \in PracticallyTerminalCodes
                 => /\ pc = "poll_cancel"
                    /\ Cardinality(CancelsIssued) = 1
                    /\ LastCall = CancelCall
            /\ code \in TerminalCodes
                 => /\ RaisedByExamination
                    /\ exc = ProvisioningFailure(requestsData[first])
                    /\ CancelsIssued = { }

\* After the cancel call for a practically-terminal code, what is raised is
\* the failure with the code and message of that first failing request.
FirstFailingIsRaised ==
    (pc = "poll_cancel" /\ pc' = "raised")
        => /\ exc' = ProvisioningFailure(instanceRequest)
           /\ calls' = calls

\* C18: with several failing requests of the batch in one snapshot, the
\* first of them in the order of the snapshot decides: the requests after it
\* are not examined, a cancel call is issued exactly when its code is
\* practically-terminal, and the failure raised carries its code and
\* message.
C18_FirstFailingDecides ==
    []FirstFailingDecides /\ [][FirstFailingIsRaised]_vars

ReturnedList == pc = "returned" \/ (pc = "exited" /\ exit_status = 0)

NoCancelBeforeReturn == ReturnedList => CancelsIssued = { }

CancelsNameTheBatch ==
    \A i \in CancelsIssued :
       /\ Submitted
       /\ calls[i].ids = sirIDList
       /\ calls[i].region_switch = region_switch

\* A step that issues a cancel call is the examination of a snapshot that
\* stops at a practically-terminal code, or an interrupt of the fulfillment
\* wait (of its sleep, its describe call or its cancel call).
CancelOnlyOnItsTwoPaths ==
    calls' # calls /\ calls'[Len(calls')].cmd = "cancel-spot-instance-requests" =>
        \/ /\ pc = "poll_describe"
           /\ pc' = "poll_cancel"
           /\ instanceRequest'.Status.Code \in PracticallyTerminalCodes
        \/ /\ pc \in { "poll_sleep", "poll_describe", "poll_cancel" }
           /\ pc' = "int_cancel"

====
